---- MODULE Spec2Model ----
(***************************************************************************)
(* A model of the OpenAPI DTO generator: the schema dependency sorter, the *)
(* class-name and enum-name allocators, the inheritance flattener and the  *)
(* generation run of generateClassesFromOpenAPI.                           *)
(*                                                                         *)
(* Names (schema names, property names, class names, enum values) are      *)
(* sequences of one-character strings, so that toPascalCase, string        *)
(* concatenation and the default Array.prototype.sort order are computed   *)
(* character by character as the code computes them.                       *)
(*                                                                         *)
(* A JavaScript object or Map, whose iteration order is its insertion      *)
(* order, is a sequence of entries [k |-> key, v |-> value] with pairwise  *)
(* distinct keys.  A JavaScript Set that is only tested for membership is  *)
(* a set; one that is iterated is a duplicate-free sequence.               *)
(***************************************************************************)
EXTENDS Integers, Sequences, FiniteSets, TLC

VARIABLES
  pc,                \* position of the run
  doc,               \* openApiDocument: [schemas: entries, paths: responses]
  schemaToClassName, \* module-level Map schema name -> class name (line 8)
  usedNames,         \* Set of class names taken (line 694)
  usedEnums,         \* Map enum name -> values (line 695)
  generatedEnums,    \* enum declarations pushed so far (line 691)
  baseClasses,       \* class declarations without extends (line 689)
  childClasses,      \* class declarations with extends (line 690)
  processedSchemas,  \* Set of schema names emitted (line 693)
  dependencyGraph,   \* Map schema name -> Set of schema names (line 712)
  cycles,            \* sorter: nodes marked as cycle participants (line 982)
  sorted,            \* sorter: list built by the first pass (line 979)
  sortedSchemas,     \* sorter: result of the second pass (line 713)
  cursor,            \* index of the next loop iteration of the current phase
  output,            \* assembled output: [enums, base, child] after dedup
  log                \* observations: what each allocator call returned

vars == <<pc, doc, schemaToClassName, usedNames, usedEnums, generatedEnums,
          baseClasses, childClasses, processedSchemas, dependencyGraph,
          cycles, sorted, sortedSchemas, cursor, output, log>>

-----------------------------------------------------------------------------
(* Sequences and insertion-ordered maps                                    *)

Range(s) == {s[i] : i \in 1..Len(s)}

Contains(s, x) == \E i \in 1..Len(s) : s[i] = x

IndexOf(s, x) == IF Contains(s, x) THEN CHOOSE i \in 1..Len(s) : s[i] = x /\ \A j \in 1..(i-1) : s[j] # x ELSE 0

NoDup(s) == \A i, j \in 1..Len(s) : s[i] = s[j] => i = j

\* [...new Set(xs)]: the first occurrence of each element, in order.
RECURSIVE DedupFrom(_, _, _)
DedupFrom(s, i, acc) ==
  IF i > Len(s) THEN acc
  ELSE DedupFrom(s, i + 1, IF Contains(acc, s[i]) THEN acc ELSE Append(acc, s[i]))

Dedup(s) == DedupFrom(s, 1, <<>>)

Keys(m) == [i \in 1..Len(m) |-> m[i].k]

KeySet(m) == {m[i].k : i \in 1..Len(m)}

MapHas(m, key) == \E i \in 1..Len(m) : m[i].k = key

MapGet(m, key) == m[CHOOSE i \in 1..Len(m) : m[i].k = key].v

\* Map.set / property assignment: an existing key keeps its position.
MapSet(m, key, val) ==
  IF MapHas(m, key)
  THEN [i \in 1..Len(m) |-> IF m[i].k = key THEN [k |-> key, v |-> val] ELSE m[i]]
  ELSE Append(m, [k |-> key, v |-> val])

\* target[key] = value for a whole entry: an existing key keeps its position.
SetEntry(m, e) ==
  IF MapHas(m, e.k)
  THEN [i \in 1..Len(m) |-> IF m[i].k = e.k THEN e ELSE m[i]]
  ELSE Append(m, e)

\* Object.assign(target, source): source entries in order.
RECURSIVE AssignFrom(_, _, _)
AssignFrom(target, source, i) ==
  IF i > Len(source) THEN target
  ELSE AssignFrom(SetEntry(target, source[i]), source, i + 1)

ObjectAssign(target, source) == AssignFrom(target, source, 1)

-----------------------------------------------------------------------------
(* Characters and strings                                                  *)

LowerChars == <<"a","b","c","d","e","f","g","h","i","j","k","l","m",
                "n","o","p","q","r","s","t","u","v","w","x","y","z">>

UpperChars == <<"A","B","C","D","E","F","G","H","I","J","K","L","M",
                "N","O","P","Q","R","S","T","U","V","W","X","Y","Z">>

DigitChars == <<"0","1","2","3","4","5","6","7","8","9">>

\* The characters of the model in UTF-16 code unit order.
CodeOrder == <<"-">> \o DigitChars \o UpperChars \o <<"_">> \o LowerChars

Code(c) == IndexOf(CodeOrder, c)

IsLower(c) == Contains(LowerChars, c)

ToUpper(c) == IF IsLower(c) THEN UpperChars[IndexOf(LowerChars, c)] ELSE c

ToLower(c) == IF Contains(UpperChars, c) THEN LowerChars[IndexOf(UpperChars, c)] ELSE c

ToLowerCase(s) == [i \in 1..Len(s) |-> ToLower(s[i])]

\* str.replace(/[-_]([a-z])/g, g => g[1].toUpperCase()), left to right.
RECURSIVE ReplaceSeparators(_, _)
ReplaceSeparators(s, i) ==
  IF i > Len(s) THEN <<>>
  ELSE IF s[i] \in {"-", "_"} /\ i < Len(s) /\ IsLower(s[i + 1])
       THEN <<ToUpper(s[i + 1])>> \o ReplaceSeparators(s, i + 2)
       ELSE <<s[i]>> \o ReplaceSeparators(s, i + 1)

toPascalCase(str) ==
  LET t == ReplaceSeparators(str, 1)
  IN  IF Len(t) > 0 /\ IsLower(t[1]) THEN <<ToUpper(t[1])>> \o Tail(t) ELSE t

\* a < b in the order of String comparison (code units, then length).
RECURSIVE StrLessFrom(_, _, _)
StrLessFrom(a, b, i) ==
  IF i > Len(a) THEN i <= Len(b)
  ELSE IF i > Len(b) THEN FALSE
  ELSE IF a[i] = b[i] THEN StrLessFrom(a, b, i + 1)
  ELSE Code(a[i]) < Code(b[i])

StrLess(a, b) == StrLessFrom(a, b, 1)

\* Array.prototype.sort() without a comparator, on strings: insertion sort
\* gives the same result as any stable sort.
RECURSIVE InsertSorted(_, _)
InsertSorted(s, x) ==
  IF s = <<>> THEN <<x>>
  ELSE IF StrLess(x, Head(s)) THEN <<x>> \o s
  ELSE <<Head(s)>> \o InsertSorted(Tail(s), x)

RECURSIVE SortFrom(_, _, _)
SortFrom(s, i, acc) ==
  IF i > Len(s) THEN acc ELSE SortFrom(s, i + 1, InsertSorted(acc, s[i]))

ArraySort(s) == SortFrom(s, 1, <<>>)

StartsWith(s, prefix) ==
  /\ Len(s) >= Len(prefix)
  /\ \A i \in 1..Len(prefix) : s[i] = prefix[i]

-----------------------------------------------------------------------------
(* schema-dependency: sortSchemasByDependency                              *)

\* graph.get(node) || new Set()
GraphDeps(graph, node) == IF MapHas(graph, node) THEN MapGet(graph, node) ELSE <<>>

\* A mutant of MarkCycle: only the node that closes the cycle is marked.
MarkCycleOnlyNode(st, node, path) == [st EXCEPT !.cycles = @ \cup {node}]

\* path.forEach(n => cycles.add(n))
MarkCycle(st, node, path) == [st EXCEPT !.cycles = @ \cup path]

\* The traversal state of the first pass.
VisitInit == [visited |-> {}, visiting |-> {}, cycles |-> {}, sorted |-> <<>>]

RECURSIVE visit(_, _, _, _)
RECURSIVE visitDeps(_, _, _, _, _)
visit(graph, node, path, st) ==
  IF node \in st.visited THEN st
  ELSE IF node \in st.visiting THEN MarkCycle(st, node, path)
  ELSE LET path1 == path \cup {node}
           st1 == [st EXCEPT !.visiting = @ \cup {node}]
           st2 == visitDeps(graph, GraphDeps(graph, node), 1, path1, st1)
       IN  [st2 EXCEPT !.visiting = @ \ {node},
                       !.visited = @ \cup {node},
                       !.sorted = <<node>> \o @]

visitDeps(graph, deps, i, path, st) ==
  IF i > Len(deps) THEN st
  ELSE visitDeps(graph, deps, i + 1, path,
                 IF deps[i] \notin st.visited
                 THEN visit(graph, deps[i], path, st)
                 ELSE st)

\* for (const node of graph.keys()) if (!visited.has(node)) visit(node)
RECURSIVE firstPassFrom(_, _, _)
firstPassFrom(graph, i, st) ==
  IF i > Len(graph) THEN st
  ELSE firstPassFrom(graph, i + 1,
                     IF graph[i].k \notin st.visited
                     THEN visit(graph, graph[i].k, {}, st)
                     ELSE st)

firstPass(graph) == firstPassFrom(graph, 1, VisitInit)

\* if (cycles.has(dep) && !processed.has(dep)) { finalSorted.push(dep); processed.add(dep) }
PushCyclicDep(cyc, dep, st) ==
  IF dep \in cyc /\ dep \notin st.processed
  THEN [finalSorted |-> Append(st.finalSorted, dep), processed |-> st.processed \cup {dep}]
  ELSE st

\* if (!cycles.has(dep)) processNode(dep)
IsNonCyclicDep(cyc, dep) == dep \notin cyc

RECURSIVE processNode(_, _, _, _)
RECURSIVE processNonCyclic(_, _, _, _, _)
RECURSIVE processCyclic(_, _, _, _)
processNode(graph, cyc, node, st) ==
  IF node \in st.processed THEN st
  ELSE LET deps == GraphDeps(graph, node)
           st1 == processNonCyclic(graph, cyc, deps, 1, st)
           st2 == processCyclic(cyc, deps, 1, st1)
       IN  [finalSorted |-> Append(st2.finalSorted, node),
            processed |-> st2.processed \cup {node}]

processNonCyclic(graph, cyc, deps, i, st) ==
  IF i > Len(deps) THEN st
  ELSE processNonCyclic(graph, cyc, deps, i + 1,
                        IF IsNonCyclicDep(cyc, deps[i])
                        THEN processNode(graph, cyc, deps[i], st)
                        ELSE st)

processCyclic(cyc, deps, i, st) ==
  IF i > Len(deps) THEN st
  ELSE processCyclic(cyc, deps, i + 1, PushCyclicDep(cyc, deps[i], st))

\* for (const node of sorted) processNode(node)
RECURSIVE secondPassFrom(_, _, _, _, _)
secondPassFrom(graph, cyc, order, i, st) ==
  IF i > Len(order) THEN st
  ELSE secondPassFrom(graph, cyc, order, i + 1, processNode(graph, cyc, order[i], st))

secondPass(graph, cyc, order) ==
  secondPassFrom(graph, cyc, order, 1, [finalSorted |-> <<>>, processed |-> {}]).finalSorted

sortSchemasByDependency(graph) ==
  LET p == firstPass(graph) IN secondPass(graph, p.cycles, p.sorted)


-----------------------------------------------------------------------------
(* Bounds of the sorter's inputs                                           *)

\* The most dependencies of one schema of a graph given to the sorter.
MaxDeps == 2

nA == <<"A">>
nB == <<"B">>
nC == <<"C">>
nX == <<"X">>

\* The declared names the sorter's graphs draw from, and one name never declared.
SortNames == {nA, nB, nC}

Undeclared == nX

\* The duplicate-free sequences over S of length at most n.
RECURSIVE SeqsNoDup(_, _)
SeqsNoDup(S, n) ==
  IF n = 0 THEN {<<>>}
  ELSE LET prev == SeqsNoDup(S, n - 1)
           longer == {Append(q, x) : q \in {r \in prev : Len(r) = n - 1}, x \in S}
       IN  prev \cup {q \in longer : NoDup(q)}

\* The key orders and the dependency lists of the graphs given to the sorter.
SortKeySeqs == SeqsNoDup(SortNames, Cardinality(SortNames))

SortDepSeqs == SeqsNoDup(SortNames \cup {Undeclared}, MaxDeps)

GraphOf(keys, d) == [i \in 1..Len(keys) |-> [k |-> keys[i], v |-> d[i]]]


-----------------------------------------------------------------------------
(* The sorter as two steps: the first pass, then the second pass          *)

EmptyDoc == [schemas |-> <<>>, paths |-> <<>>]

NoOutput == [enums |-> <<>>, base |-> <<>>, child |-> <<>>]

\* The locals of generateClassesFromOpenAPI as they are declared (lines 689-695).
FreshRun ==
  /\ schemaToClassName = <<>>
  /\ usedNames = {}
  /\ usedEnums = <<>>
  /\ generatedEnums = <<>>
  /\ baseClasses = <<>>
  /\ childClasses = <<>>
  /\ processedSchemas = {}
  /\ output = NoOutput
  /\ log = {}

SorterIdle ==
  /\ cycles = {}
  /\ sorted = <<>>
  /\ sortedSchemas = <<>>
  /\ cursor = 1

runVars == <<schemaToClassName, usedNames, usedEnums, generatedEnums,
             baseClasses, childClasses, processedSchemas, output, log>>

\* Lines 984-1013: the depth-first pass that fills cycles and sorted.
FirstPass ==
  /\ pc = "sort1"
  /\ LET p == firstPass(dependencyGraph)
     IN  /\ cycles' = p.cycles
         /\ sorted' = p.sorted
  /\ pc' = "sort2"
  /\ UNCHANGED <<doc, dependencyGraph, sortedSchemas, cursor>>
  /\ UNCHANGED runVars

\* Lines 1019-1054: the pass that produces the final order.
SecondPass ==
  /\ pc = "sort2"
  /\ sortedSchemas' = secondPass(dependencyGraph, cycles, sorted)
  /\ pc' = "schemas"
  /\ cursor' = 1
  /\ UNCHANGED <<doc, dependencyGraph, cycles, sorted>>
  /\ UNCHANGED runVars

InitSort ==
  /\ pc = "sort1"
  /\ doc = EmptyDoc
  /\ \E keys \in SortKeySeqs :
       \E d \in [1..Len(keys) -> SortDepSeqs] :
         dependencyGraph = GraphOf(keys, d)
  /\ FreshRun
  /\ SorterIdle

NextSort == FirstPass \/ SecondPass

\* sortSchemasByDependency applied to every graph within the bounds.
SpecSort == InitSort /\ [][NextSort]_vars

-----------------------------------------------------------------------------
(* Claims about the sorter                                                 *)

Sorted == pc = "schemas"

Occurrences(s, x) == Cardinality({i \in 1..Len(s) : s[i] = x})

\* The names reachable from a by one or more edges.
RECURSIVE ReachFrom(_, _, _)
ReachFrom(graph, frontier, seen) ==
  LET next == UNION {Range(GraphDeps(graph, n)) : n \in frontier} \ seen
  IN  IF next = {} THEN seen ELSE ReachFrom(graph, next, seen \cup next)

ReachPlus(graph, a) == ReachFrom(graph, {a}, {})

OnCycle(graph, a) == a \in ReachPlus(graph, a)

\* C1: the sorter's output contains exactly the declared names of the graph,
\* each exactly once, whatever the edges (cycles, self references, references
\* to undeclared names).
C1_TotalOrderCompleteness ==
  Sorted =>
    /\ Len(sortedSchemas) = Len(dependencyGraph)
    /\ \A i \in 1..Len(dependencyGraph) :
         Occurrences(sortedSchemas, dependencyGraph[i].k) = 1

\* C2: for every edge a -> b whose target b is a declared schema that lies on
\* no cycle, b is emitted before a.
C2_AcyclicOrdering ==
  Sorted =>
    \A i \in 1..Len(dependencyGraph) :
      \A b \in Range(dependencyGraph[i].v) :
        (MapHas(dependencyGraph, b) /\ ~OnCycle(dependencyGraph, b)) =>
          /\ Contains(sortedSchemas, b)
          /\ Contains(sortedSchemas, dependencyGraph[i].k)
          /\ IndexOf(sortedSchemas, b) < IndexOf(sortedSchemas, dependencyGraph[i].k)

MutualCycle(a, b) == <<[k |-> a, v |-> <<b>>], [k |-> b, v |-> <<a>>]>>

\* C3: two schemas that reference each other both appear in the output
\* exactly once, for either insertion order.
C3_CycleInclusion ==
  \A a, b \in SortNames :
    (a # b /\ Sorted /\ dependencyGraph = MutualCycle(a, b)) =>
      /\ Len(sortedSchemas) = 2
      /\ Occurrences(sortedSchemas, a) = 1
      /\ Occurrences(sortedSchemas, b) = 1

C3_Witness ==
  /\ Sorted
  /\ dependencyGraph = MutualCycle(nB, nA)
  /\ sortedSchemas = <<nA, nB>>

FirstPassDone == pc \in {"sort2", "schemas"}

\* C17: after the first pass the names marked as cycle participants are
\* exactly the declared names reachable from themselves by one or more
\* edges: none that is on no cycle, and every one that is on a cycle.
C17_CyclesExactlyMarked ==
  FirstPassDone =>
    cycles = {n \in KeySet(dependencyGraph) : OnCycle(dependencyGraph, n)}


-----------------------------------------------------------------------------
(* Name allocators (lines 39-147)                                          *)

\* String literals of the code.
sResponse == <<"R","e","s","p","o","n","s","e">>
sUnderscore == <<"_">>
sWith == <<"W","i","t","h">>
sItem == <<"I","t","e","m">>
sObject == <<"O","b","j","e","c","t">>
sStatus == <<"S","t","a","t","u","s">>
sCurrency == <<"C","u","r","r","e","n","c","y">>
sLowerStatus == <<"s","t","a","t","u","s">>
sLowerCurrency == <<"c","u","r","r","e","n","c","y">>
\* '#/components/schemas/'
sRefPrefix == <<"#","/","c","o","m","p","o","n","e","n","t","s","/","s","c","h","e","m","a","s","/">>

\* const suffixes = ['Detail', 'Extended', 'Full', 'Complete', 'Info'] (line 48)
OperationSuffixes == <<<<"D","e","t","a","i","l">>, <<"E","x","t","e","n","d","e","d">>, <<"F","u","l","l">>, <<"C","o","m","p","l","e","t","e">>, <<"I","n","f","o">>>>

\* const suffixes = ['Model', 'Type', 'Entity', 'Object', 'Data'] (line 87)
ClassSuffixes == <<<<"M","o","d","e","l">>, <<"T","y","p","e">>, <<"E","n","t","i","t","y">>, <<"O","b","j","e","c","t">>, <<"D","a","t","a">>>>

\* const suffixes = ['Type', 'Enum', 'Values', 'Options', 'List'] (line 133)
EnumSuffixes == <<<<"T","y","p","e">>, <<"E","n","u","m">>, <<"V","a","l","u","e","s">>, <<"O","p","t","i","o","n","s">>, <<"L","i","s","t">>>>

\* The values Math.random().toString(36).substring(2, 8) can take, cut to
\* two: the code draws from 36^6 strings and checks none of them against
\* the names taken.
Tokens == {<<"k","3","x","9","q","7">>, <<"q","7","m","2","z","1">>}

\* The most random tokens one step of a run may draw.
MaxDraws == 1

TokenOracles == [1..MaxDraws -> Tokens]

\* The registries threaded through the calls of one step, with the tokens
\* Math.random will return (rnd), the number drawn so far (draws), and the
\* places of the document whose enum array was sorted in place (touched).
Registries(cache, names, enums, rnd) ==
  [cache |-> cache, names |-> names, enums |-> enums, rnd |-> rnd, draws |-> 0,
   touched |-> <<>>]

NextToken(st) == IF st.draws < Len(st.rnd) THEN st.rnd[st.draws + 1] ELSE st.rnd[Len(st.rnd)]

\* The index of the first candidate of the ladder that is not taken, or 0
\* when all are.
RECURSIVE FirstUnused(_, _, _)
FirstUnused(candidates, taken, i) ==
  IF i > Len(candidates) THEN 0
  ELSE IF candidates[i] \notin taken THEN i
  ELSE FirstUnused(candidates, taken, i + 1)

WithSuffixes(base, suffixes) == [i \in 1..Len(suffixes) |-> base \o suffixes[i]]

\* Lines 39-62.  Returns the name and the registries after the call.
getClassNameFromOperationId(operationId, statusCode, st) ==
  LET baseClassName == toPascalCase(operationId) \o statusCode \o sResponse
      ladder == <<baseClassName>> \o WithSuffixes(baseClassName, OperationSuffixes)
      found == FirstUnused(ladder, st.names, 1)
      fallbackName == baseClassName \o sUnderscore \o NextToken(st)
  IN  IF found # 0
      THEN [name |-> ladder[found], st |-> [st EXCEPT !.names = @ \cup {ladder[found]}]]
      ELSE [name |-> fallbackName,
            st |-> [st EXCEPT !.names = @ \cup {fallbackName}, !.draws = @ + 1]]

\* A mutant of ClassNameLadder: no suffixed forms.
ClassNameLadderUnsuffixed(schemaName) == <<schemaName, toPascalCase(schemaName)>>

\* Lines 71-95: the exact name, its PascalCase form, then the suffixed forms.
ClassNameLadder(schemaName) ==
  LET pascalName == toPascalCase(schemaName)
  IN  <<schemaName, pascalName>> \o WithSuffixes(pascalName, ClassSuffixes)

\* Lines 65-103.  Returns the name and the registries after the call.
getClassNameFromSchemaName(schemaName, st) ==
  IF MapHas(st.cache, schemaName)
  THEN [name |-> MapGet(st.cache, schemaName), st |-> st]
  ELSE LET ladder == ClassNameLadder(schemaName)
           found == FirstUnused(ladder, st.names, 1)
           fallbackName == toPascalCase(schemaName) \o sUnderscore \o NextToken(st)
       IN  IF found # 0
           THEN [name |-> ladder[found],
                 st |-> [st EXCEPT !.names = @ \cup {ladder[found]},
                                   !.cache = MapSet(@, schemaName, ladder[found])]]
           ELSE [name |-> fallbackName,
                 st |-> [st EXCEPT !.names = @ \cup {fallbackName},
                                   !.cache = MapSet(@, schemaName, fallbackName),
                                   !.draws = @ + 1]]

\* A mutant of EnumKey: the value list is compared as it was declared.
EnumKeyUnsorted(enumValues) == enumValues

\* JSON.stringify(enumValues.sort()) (lines 108, 112): the array sorted in
\* place; two lists of strings have equal serialisations exactly when the
\* sorted lists are equal.
EnumKey(enumValues) == ArraySort(enumValues)

\* A mutant of ExistingEnum: no registered enum is ever found.
ExistingEnumNone(enums, enumKey) == 0

\* Lines 111-115: the first registered enum with an equal key, or 0.
ExistingEnum(enums, enumKey) ==
  IF \E i \in 1..Len(enums) : EnumKey(enums[i].v) = enumKey
  THEN CHOOSE i \in 1..Len(enums) :
         /\ EnumKey(enums[i].v) = enumKey
         /\ \A j \in 1..(i - 1) : EnumKey(enums[j].v) # enumKey
  ELSE 0

\* Lines 118-125.
EnumBaseName(propertyName, context) ==
  IF ToLowerCase(propertyName) = sLowerCurrency THEN sCurrency
  ELSE IF ToLowerCase(propertyName) = sLowerStatus THEN toPascalCase(context) \o sStatus
  ELSE toPascalCase(context) \o toPascalCase(propertyName)

\* Lines 106-147.  enumValues.sort() sorts the caller's array in place: the
\* array after the call is returned as values, and it is the array the
\* registry stores.
getEnumNameFromProperty(propertyName, enumValues, context, st) ==
  LET enumKey == EnumKey(enumValues)
      sortedValues == enumKey
      existing == ExistingEnum(st.enums, enumKey)
      baseName == EnumBaseName(propertyName, context)
      ladder == <<baseName>> \o WithSuffixes(baseName, EnumSuffixes)
      found == FirstUnused(ladder, KeySet(st.enums), 1)
      fallbackName == baseName \o sUnderscore \o NextToken(st)
  IN  IF existing # 0
      THEN [name |-> st.enums[existing].k, values |-> sortedValues, st |-> st]
      ELSE IF found # 0
      THEN [name |-> ladder[found], values |-> sortedValues,
            st |-> [st EXCEPT !.enums = MapSet(@, ladder[found], sortedValues)]]
      ELSE [name |-> fallbackName, values |-> sortedValues,
            st |-> [st EXCEPT !.enums = MapSet(@, fallbackName, sortedValues),
                              !.draws = @ + 1]]


-----------------------------------------------------------------------------
(* The class-name allocator driven by arbitrary requests                   *)

kX2Response == <<"X","2","R","e","s","p","o","n","s","e">>
opX == <<"x">>
status2 == <<"2">>

\* The most calls of getClassNameFromOperationId in one sequence of requests.
MaxOperationRequests == 1

\* Schema names requested of getClassNameFromSchemaName: one that an
\* operation's response class also takes, its five suffixed forms, and one
\* that reads like a random-token form of it.
AllocKeys ==
  {kX2Response}
    \cup {kX2Response \o ClassSuffixes[i] : i \in 1..Len(ClassSuffixes)}
    \cup {kX2Response \o sUnderscore \o (CHOOSE t \in Tokens : TRUE)}

AllocOperations == {[operationId |-> opX, statusCode |-> status2]}

AllocIdle ==
  /\ doc = EmptyDoc
  /\ dependencyGraph = <<>>
  /\ SorterIdle
  /\ generatedEnums = <<>>
  /\ baseClasses = <<>>
  /\ childClasses = <<>>
  /\ processedSchemas = {}
  /\ output = NoOutput

allocFrame == <<doc, dependencyGraph, cycles, sorted, sortedSchemas, cursor,
                generatedEnums, baseClasses, childClasses, processedSchemas, output>>

\* One call getClassNameFromSchemaName(schemaName, usedNames).
RequestSchemaName(schemaName) ==
  /\ pc = "alloc"
  /\ \E rnd \in TokenOracles :
       LET r == getClassNameFromSchemaName(schemaName,
                  Registries(schemaToClassName, usedNames, usedEnums, rnd))
       IN  /\ schemaToClassName' = r.st.cache
           /\ usedNames' = r.st.names
           /\ log' = log \cup {[fn |-> "schema", key |-> schemaName, name |-> r.name]}
  /\ UNCHANGED <<pc, usedEnums>>
  /\ UNCHANGED allocFrame

\* One call getClassNameFromOperationId(operationId, statusCode, usedNames).
RequestOperationName(op) ==
  /\ pc = "alloc"
  /\ Cardinality({e \in log : e.fn = "operation"}) < MaxOperationRequests
  /\ \E rnd \in TokenOracles :
       LET r == getClassNameFromOperationId(op.operationId, op.statusCode,
                  Registries(schemaToClassName, usedNames, usedEnums, rnd))
       IN  /\ usedNames' = r.st.names
           /\ log' = log \cup {[fn |-> "operation", key |-> op.operationId \o op.statusCode,
                                name |-> r.name]}
  /\ UNCHANGED <<pc, schemaToClassName, usedEnums>>
  /\ UNCHANGED allocFrame

InitAlloc ==
  /\ pc = "alloc"
  /\ schemaToClassName = <<>>
  /\ usedNames = {}
  /\ usedEnums = <<>>
  /\ log = {}
  /\ AllocIdle

NextAlloc ==
  \/ \E k \in AllocKeys : RequestSchemaName(k)
  \/ \E op \in AllocOperations : RequestOperationName(op)

\* One class-name registry (cache and used-name set) under any sequence of
\* allocation requests.
SpecAlloc == InitAlloc /\ [][NextAlloc]_vars

SchemaRequests == {e \in log : e.fn = "schema"}

\* C5: distinct schema names requested of the class-name allocator receive
\* distinct class names, and a repeated schema name receives the name it was
\* given first, the random-token step included.
C5_NameUniqueness ==
  \A e1, e2 \in SchemaRequests : (e1.key = e2.key) <=> (e1.name = e2.name)


\* The seven names the spec lists for a schema name, in order.
SevenNames(schemaName) ==
  <<schemaName, toPascalCase(schemaName),
    toPascalCase(schemaName) \o <<"M","o","d","e","l">>,
    toPascalCase(schemaName) \o <<"T","y","p","e">>,
    toPascalCase(schemaName) \o <<"E","n","t","i","t","y">>,
    toPascalCase(schemaName) \o <<"O","b","j","e","c","t">>,
    toPascalCase(schemaName) \o <<"D","a","t","a">>>>

\* name is what the ladder gives for schemaName when the names of taken are
\* used: the first of the seven that is free, a random-token name when none
\* is.
LadderGives(schemaName, taken, name) ==
  IF \E i \in 1..7 : SevenNames(schemaName)[i] \notin taken
  THEN \E i \in 1..7 :
         /\ name = SevenNames(schemaName)[i]
         /\ name \notin taken
         /\ \A j \in 1..(i - 1) : SevenNames(schemaName)[j] \in taken
  ELSE \E t \in Tokens : name = toPascalCase(schemaName) \o <<"_">> \o t

\* C19: a call of getClassNameFromSchemaName for a schema name not in the
\* cache returns the first free name of the ladder (exact, PascalCase, then
\* with Model, Type, Entity, Object, Data), a random-token name only when
\* all seven are taken, adds the name to the used names and records it in
\* the cache; the cache and the used names change in no other way, so a
\* call for a cached schema name changes neither.
C19_LadderThenRecorded ==
  [][/\ \A e \in log' \ log :
          e.fn = "schema" =>
            /\ ~MapHas(schemaToClassName, e.key)
            /\ LadderGives(e.key, usedNames, e.name)
            /\ usedNames' = usedNames \cup {e.name}
            /\ schemaToClassName' = Append(schemaToClassName, [k |-> e.key, v |-> e.name])
     /\ schemaToClassName' # schemaToClassName => \E e \in log' \ log : e.fn = "schema"
     /\ usedNames' # usedNames => log' # log]_vars

\* The allocator has given a schema name a random-token name, all seven
\* names of its ladder being taken by then.
C19_Witness ==
  \E e \in SchemaRequests, t \in Tokens :
    /\ e.name = e.key \o <<"_">> \o t
    /\ Range(SevenNames(e.key)) \subseteq usedNames
    /\ MapGet(schemaToClassName, e.key) = e.name


-----------------------------------------------------------------------------
(* The enum-name allocator driven by arbitrary requests                    *)

\* The most calls of getEnumNameFromProperty in one sequence of requests.
MaxEnumRequests == 3

\* The most values of one requested enum.
MaxEnumLen == 2

vA == <<"A">>
vB == <<"B">>

pStatus == <<"s","t","a","t","u","s">>
pState == <<"s","t","a","t","e">>
pCurrency == <<"c","u","r","r","e","n","c","y">>
cPet == <<"P","e","t">>
cGetPet == <<"g","e","t","P","e","t">>

EnumProperties == {pStatus, pState, pCurrency}

EnumContexts == {cPet, cGetPet}

\* Value lists in every order of declaration.
EnumValueLists == SeqsNoDup({vA, vB}, MaxEnumLen) \ {<<>>}

\* One call getEnumNameFromProperty(propertyName, enumValues, context, usedEnums).
RequestEnumName(propertyName, enumValues, context) ==
  /\ pc = "enum"
  /\ Cardinality(log) < MaxEnumRequests
  /\ \E rnd \in TokenOracles :
       LET r == getEnumNameFromProperty(propertyName, enumValues, context,
                  Registries(schemaToClassName, usedNames, usedEnums, rnd))
       IN  /\ usedEnums' = r.st.enums
           /\ log' = log \cup {[fn |-> "enum", key |-> <<propertyName, context>>,
                                values |-> enumValues, name |-> r.name]}
  /\ UNCHANGED <<pc, schemaToClassName, usedNames>>
  /\ UNCHANGED allocFrame

InitEnum ==
  /\ pc = "enum"
  /\ schemaToClassName = <<>>
  /\ usedNames = {}
  /\ usedEnums = <<>>
  /\ log = {}
  /\ AllocIdle

NextEnum ==
  \E p \in EnumProperties, vs \in EnumValueLists, c \in EnumContexts :
    RequestEnumName(p, vs, c)

\* One enum registry under any sequence of allocation requests.
SpecEnum == InitEnum /\ [][NextEnum]_vars

SameValueSet(v1, v2) == Range(v1) = Range(v2)

\* C6: requests for the same value set, in any order of the values and under
\* any property name and context, return the same enum name, and the
\* registry holds one entry for that value set.
C6_EnumDedupOrderInsensitive ==
  /\ \A e1, e2 \in log : SameValueSet(e1.values, e2.values) => e1.name = e2.name
  /\ \A i, j \in 1..Len(usedEnums) :
       SameValueSet(usedEnums[i].v, usedEnums[j].v) => i = j

C6_Witness ==
  \E e1, e2 \in log :
    /\ e1.values = <<vA, vB>>
    /\ e2.values = <<vB, vA>>
    /\ e1.key[1] # e2.key[1]
    /\ e1.key[2] # e2.key[2]
    /\ e1.name = e2.name
    /\ Len(usedEnums) = 1


-----------------------------------------------------------------------------
(* Schemas (OpenAPISchema) and the document                                *)
(*                                                                         *)
(* A schema is a record holding only the fields the document gives it:     *)
(* type, format, enum, properties, items, required, allOf, ref ($ref).     *)
(* properties is an insertion-ordered map from property name to schema.    *)

Has(schema, f) == f \in DOMAIN schema

TypeOf(schema) == IF Has(schema, "type") THEN schema.type ELSE "undefined"

\* ref.startsWith('#/components/schemas/')
IsLocalRef(ref) == StartsWith(ref, sRefPrefix)

\* ref.replace('#/components/schemas/', '') of a ref that starts with it
RefName(ref) == SubSeq(ref, Len(sRefPrefix) + 1, Len(ref))

RefTo(name) == sRefPrefix \o name

\* s.$ref && s.$ref.startsWith('#/components/schemas/')
HasLocalRef(schema) == Has(schema, "ref") /\ IsLocalRef(schema.ref)

NotFound == [found |-> FALSE]

\* { ...schema, title: schemaName }
WithTitle(schema, schemaName) ==
  [f \in DOMAIN schema \cup {"title"} |-> IF f = "title" THEN schemaName ELSE schema[f]]

\* Lines 1095-1118.
resolveRef(ref, document) ==
  IF ~IsLocalRef(ref) THEN NotFound
  ELSE LET schemaName == RefName(ref)
       IN  IF ~MapHas(document.schemas, schemaName) THEN NotFound
           ELSE LET schema == MapGet(document.schemas, schemaName)
                IN  IF \/ TypeOf(schema) \in {"string", "number", "integer", "boolean"}
                       \/ Has(schema, "enum")
                    THEN [found |-> TRUE, schema |-> WithTitle(schema, schemaName)]
                    ELSE [found |-> TRUE, schema |-> schema]

\* Lines 1121-1123.
isEnumSchema(schema) ==
  TypeOf(schema) = "string" /\ Has(schema, "enum") /\ Len(schema.enum) > 0

\* Lines 1126-1138: the top-level enum schemas, in document order.
getEnums(document) ==
  SelectSeq(document.schemas, LAMBDA e : isEnumSchema(e.v))

\* Lines 911-927: the references of a schema in the order they are met.
RECURSIVE processSchema(_)
RECURSIVE processSchemaList(_, _)
processSchema(schema) ==
  (IF HasLocalRef(schema) THEN <<RefName(schema.ref)>> ELSE <<>>)
    \o (IF Has(schema, "allOf") THEN processSchemaList(schema.allOf, 1) ELSE <<>>)
    \o (IF Has(schema, "properties")
        THEN processSchemaList([i \in 1..Len(schema.properties) |-> schema.properties[i].v], 1)
        ELSE <<>>)
    \o (IF Has(schema, "items") THEN processSchema(schema.items) ELSE <<>>)

processSchemaList(schemas, i) ==
  IF i > Len(schemas) THEN <<>>
  ELSE processSchema(schemas[i]) \o processSchemaList(schemas, i + 1)

\* A mutant of getSchemaRefs: only the reference of the schema itself.
getSchemaRefsShallow(schema) == IF HasLocalRef(schema) THEN <<RefName(schema.ref)>> ELSE <<>>

\* Lines 907-931.
getSchemaRefs(schema) == Dedup(processSchema(schema))

\* Lines 934-952.
getParentClasses(schema) ==
  (IF HasLocalRef(schema) THEN <<RefName(schema.ref)>> ELSE <<>>)
    \o (IF Has(schema, "allOf")
        THEN LET refs == SelectSeq(schema.allOf, HasLocalRef)
             IN  [i \in 1..Len(refs) |-> RefName(refs[i].ref)]
        ELSE <<>>)

\* Lines 955-975.
buildSchemaDependencyGraph(document) ==
  [i \in 1..Len(document.schemas) |->
     [k |-> document.schemas[i].k,
      v |-> Dedup(getSchemaRefs(document.schemas[i].v)
                    \o getParentClasses(document.schemas[i].v))]]

-----------------------------------------------------------------------------
(* Flattening of composite schemas                                         *)

\* The depth of recursion at which the engine throws RangeError (maximum
\* call stack size exceeded), cut to a depth no acyclic document of the
\* model reaches.
StackLimit == 6

Overflow == [ok |-> FALSE]

\* A mutant of PushAll: nothing is pushed.
PushNone(acc, schema) == acc

\* mergedRequired.push(...list)
PushAll(acc, schema) == IF Has(schema, "required") THEN acc \o schema.required ELSE acc

\* The place of a declared schema in the document: a place is the path of
\* field names and indices that leads from the document to a schema object.
SchemaAt(document, schemaName) ==
  <<"schemas", CHOOSE i \in 1..Len(document.schemas) : document.schemas[i].k = schemaName, "v">>

\* The entries of schema.properties, each with the place of its schema
\* object: Object.assign copies references, so a merged property is still the
\* object of the document.
Located(schema, at) ==
  IF Has(schema, "properties")
  THEN [i \in 1..Len(schema.properties) |->
          [k |-> schema.properties[i].k, v |-> schema.properties[i].v,
           at |-> at \o <<"properties", i, "v">>]]
  ELSE <<>>

\* Object.assign(mergedProperties, subSchema.properties): an absent source
\* assigns nothing.
AssignProperties(acc, schema, at) == ObjectAssign(acc, Located(schema, at))

\* Lines 551-598.  depth counts the frames of mergeParentProperties on the
\* stack; the result is Overflow when the recursion does not end.  at is the
\* place of schema.
RECURSIVE mergeParentProperties(_, _, _, _)
RECURSIVE mergeAllOf(_, _, _, _, _, _)
mergeParentProperties(schema, document, depth, at) ==
  IF depth > StackLimit THEN Overflow
  ELSE LET fromAllOf ==
             IF Has(schema, "allOf")
             THEN mergeAllOf(schema.allOf, 1, document, depth, at,
                             [ok |-> TRUE, properties |-> <<>>, required |-> <<>>])
             ELSE [ok |-> TRUE, properties |-> <<>>, required |-> <<>>]
       IN  IF ~fromAllOf.ok THEN Overflow
           ELSE [ok |-> TRUE,
                 properties |-> AssignProperties(fromAllOf.properties, schema, at),
                 required |-> Dedup(PushAll(fromAllOf.required, schema))]

mergeAllOf(allOf, i, document, depth, at, acc) ==
  IF i > Len(allOf) \/ ~acc.ok THEN acc
  ELSE LET subSchema == allOf[i]
           parent == IF Has(subSchema, "ref") THEN resolveRef(subSchema.ref, document) ELSE NotFound
           merged == IF parent.found
                     THEN mergeParentProperties(parent.schema, document, depth + 1,
                                                SchemaAt(document, RefName(subSchema.ref)))
                     ELSE Overflow
           next ==
             IF Has(subSchema, "ref")
             THEN IF ~parent.found THEN acc
                  ELSE IF ~merged.ok THEN Overflow
                  ELSE [ok |-> TRUE,
                        properties |-> ObjectAssign(acc.properties, merged.properties),
                        required |-> acc.required \o merged.required]
             ELSE [ok |-> TRUE,
                   properties |-> AssignProperties(acc.properties, subSchema,
                                                   at \o <<"allOf", i>>),
                   required |-> PushAll(acc.required, subSchema)]
       IN  mergeAllOf(allOf, i + 1, document, depth, at, next)

\* Lines 266-285, with the same account of the stack.
RECURSIVE getAllParentClasses(_, _, _)
RECURSIVE parentsOfAllOf(_, _, _, _, _)
getAllParentClasses(schema, document, depth) ==
  IF depth > StackLimit THEN Overflow
  ELSE IF ~Has(schema, "allOf") THEN [ok |-> TRUE, parents |-> <<>>]
  ELSE LET r == parentsOfAllOf(schema.allOf, 1, document, depth, [ok |-> TRUE, parents |-> <<>>])
       IN  IF r.ok THEN [ok |-> TRUE, parents |-> Dedup(r.parents)] ELSE Overflow

parentsOfAllOf(allOf, i, document, depth, acc) ==
  IF i > Len(allOf) \/ ~acc.ok THEN acc
  ELSE LET subSchema == allOf[i]
           parentName == RefName(subSchema.ref)
           declared == MapHas(document.schemas, parentName)
           above == IF declared
                    THEN getAllParentClasses(MapGet(document.schemas, parentName), document, depth + 1)
                    ELSE [ok |-> TRUE, parents |-> <<>>]
           next ==
             IF ~HasLocalRef(subSchema) THEN acc
             ELSE IF ~above.ok THEN Overflow
             ELSE [ok |-> TRUE, parents |-> acc.parents \o <<parentName>> \o above.parents]
       IN  parentsOfAllOf(allOf, i + 1, document, depth, next)


-----------------------------------------------------------------------------
(* Emitted text                                                            *)
(*                                                                         *)
(* A declaration is the record of what its text is made of, so that two    *)
(* declarations are equal exactly when their texts are: a property is its  *)
(* name, its optional mark, its type and its decorators; a class is its    *)
(* name, the class it extends (<<>> for none) and its properties; an enum  *)
(* is its name and its values, and its origin because the template of a    *)
(* top-level enum (line 700) and of an inline enum (line 354) differ in    *)
(* white space.                                                            *)

tAny == <<"a","n","y">>
tString == <<"s","t","r","i","n","g">>
tNumber == <<"n","u","m","b","e","r">>
tBoolean == <<"b","o","o","l","e","a","n">>
tDate == <<"D","a","t","e">>
tRecord == <<"R","e","c","o","r","d","<","s","t","r","i","n","g",","," ","a","n","y",">">>

ArrayOf(type) == type \o <<"[", "]">>

Placeholder == <<"PLACEHOLDER">>

Decorator(d, arg) == [d |-> d, arg |-> arg]

Plain(d) == Decorator(d, <<>>)

PropertyText(propertyName, isRequired, propertyType, decorators) ==
  [name |-> propertyName, optional |-> ~isRequired, type |-> propertyType,
   decorators |-> decorators]

ClassText(className, extends, properties) ==
  [name |-> className, extends |-> extends, properties |-> properties]

EnumText(enumName, enumValues, origin) ==
  [name |-> enumName, values |-> enumValues, origin |-> origin]

\* str.includes(sub)
Includes(str, sub) ==
  \E i \in 1..(Len(str) - Len(sub) + 1) : SubSeq(str, i, i + Len(sub) - 1) = sub

\* Lines 157-189: the decorator a property name alone decides, or "none".
NameDecorator(propertyName) ==
  LET lower == ToLowerCase(propertyName)
  IN  IF lower = <<"l","a","t","i","t","u","d","e">> THEN "IsLatitude"
      ELSE IF lower = <<"l","o","n","g","i","t","u","d","e">> THEN "IsLongitude"
      ELSE IF Includes(lower, <<"e","m","a","i","l">>) THEN "IsEmail"
      ELSE IF Includes(lower, <<"c","r","e","d","i","t","_","c","a","r","d">>) \/ Includes(lower, <<"c","r","e","d","i","t","c","a","r","d">>) THEN "IsCreditCard"
      ELSE IF Includes(lower, <<"p","h","o","n","e">>) THEN "IsPhoneNumber"
      ELSE IF lower = <<"p","o","s","t","a","l","c","o","d","e">> \/ Includes(lower, <<"p","o","s","t","a","l","_","c","o","d","e">>) \/ Includes(lower, <<"z","i","p">>)
           THEN "IsPostalCode"
      ELSE IF Includes(lower, <<"u","u","i","d">>) THEN "IsUUID"
      ELSE IF Includes(lower, <<"u","r","l">>) THEN "IsUrl"
      ELSE IF lower = <<"i","p">> \/ Includes(lower, <<"i","p","_","a","d","d","r","e","s","s">>) THEN "IsIP"
      ELSE IF lower = <<"m","o","n","g","o","d","b">> \/ Includes(lower, <<"m","o","n","g","o","_","i","d">>) \/ lower = <<"o","b","j","e","c","t","i","d">>
           THEN "IsMongoId"
      ELSE "none"

\* Lines 191-261, for schemas that state no minLength, maxLength, pattern,
\* minimum or maximum (the schemas of the model state none).
TypeDecorators(schema) ==
  IF TypeOf(schema) = "string"
  THEN IF Has(schema, "format") /\ schema.format \in {"date", "date-time"}
       THEN <<Plain("IsDate"), Plain("Transform")>>
       ELSE <<Plain("IsString")>>
              \o (IF ~Has(schema, "format") THEN <<>>
                  ELSE IF schema.format = "email" THEN <<Plain("IsEmail")>>
                  ELSE IF schema.format \in {"uri", "url"} THEN <<Plain("IsUrl")>>
                  ELSE IF schema.format = "uuid" THEN <<Plain("IsUUID")>>
                  ELSE IF schema.format \in {"ipv4", "ipv6"} THEN <<Plain("IsIP")>>
                  ELSE <<>>)
  ELSE IF TypeOf(schema) = "integer" THEN <<Plain("IsInt")>>
  ELSE IF TypeOf(schema) = "number" THEN <<Plain("IsNumber")>>
  ELSE IF TypeOf(schema) = "boolean" THEN <<Plain("IsBoolean")>>
  ELSE IF TypeOf(schema) = "array" /\ Has(schema, "items")
       THEN <<Plain("IsArray"), Plain("ValidateNestedEach"), Decorator("Type", Placeholder)>>
  ELSE IF TypeOf(schema) = "object" \/ Has(schema, "properties")
       THEN <<Plain("IsObject"), Plain("ValidateNested"), Decorator("Type", Placeholder)>>
  ELSE <<>>

\* Lines 150-264.
generateDecorators(schema, propertyName, isRequired) ==
  (IF isRequired THEN <<>> ELSE <<Plain("IsOptional")>>)
    \o (IF NameDecorator(propertyName) # "none"
        THEN <<Plain(NameDecorator(propertyName))>>
        ELSE TypeDecorators(schema))

\* decorators[i] = decorators[i].replace('PLACEHOLDER', className) for the
\* first decorator that includes PLACEHOLDER.
ReplacePlaceholder(decorators, className) ==
  LET hits == {i \in 1..Len(decorators) : decorators[i].arg = Placeholder}
  IN  IF hits = {} THEN decorators
      ELSE LET first == CHOOSE i \in hits : \A j \in hits : i <= j
           IN  [decorators EXCEPT ![first] = Decorator("Type", className)]

\* decorators.splice(index, 1) for the first decorator with the given tag.
RemoveFirst(decorators, tags) ==
  LET hits == {i \in 1..Len(decorators) : decorators[i].d \in tags}
  IN  IF hits = {} THEN decorators
      ELSE LET first == CHOOSE i \in hits : \A j \in hits : i <= j
           IN  SubSeq(decorators, 1, first - 1) \o SubSeq(decorators, first + 1, Len(decorators))

\* Lines 442-451 (and 468-477, 516-525, 531-540).
RemoveNestedDecorators(decorators) ==
  RemoveFirst(RemoveFirst(decorators, {"ValidateNested", "ValidateNestedEach"}), {"Type"})

\* Lines 429-440 (and 455-466): an array whose items get no class of their own.
PrimitiveItems(items) ==
  IF TypeOf(items) = "string" THEN [type |-> ArrayOf(tString), each |-> <<Plain("IsStringEach")>>]
  ELSE IF TypeOf(items) \in {"number", "integer"}
       THEN [type |-> ArrayOf(tNumber), each |-> <<Plain("IsNumberEach")>>]
  ELSE IF TypeOf(items) = "boolean"
       THEN [type |-> ArrayOf(tBoolean), each |-> <<Plain("IsBooleanEach")>>]
  ELSE [type |-> ArrayOf(tAny), each |-> <<>>]


-----------------------------------------------------------------------------
(* Property and class synthesis (lines 288-646)                            *)
(*                                                                         *)
(* Each operator returns ok (FALSE when the recursion of the flattener     *)
(* overflowed the stack), what it emitted, and the registries after it.    *)
(* classMap (line 292) is written and never read, and usedProperties       *)
(* (lines 305-311) decides a name that is never emitted: the emitted       *)
(* property keeps propertyName (line 314); neither is part of the result.  *)

Failed == [ok |-> FALSE]

Emitted(property, nestedClasses, enums, st) ==
  [ok |-> TRUE, property |-> property, nestedClasses |-> nestedClasses,
   enums |-> enums, st |-> st]

\* Lines 319-341: a property that is a resolvable reference.
RefProperty(propertyName, schema, refSchema, isRequired, decorators, st) ==
  LET a == getClassNameFromSchemaName(RefName(schema.ref), st)
      withEnum == IF Has(refSchema, "enum")
                  THEN Append(decorators, Decorator("IsEnum", a.name))
                  ELSE decorators
  IN  Emitted(PropertyText(propertyName, isRequired, a.name,
                           ReplacePlaceholder(withEnum, a.name)),
              <<>>, <<>>, a.st)

\* Lines 344-367: a string, with the inline enum it may declare.
StringProperty(propertyName, schema, isRequired, decorators, st, context, at) ==
  LET plainType == IF Has(schema, "format") /\ schema.format \in {"date", "date-time"}
                   THEN tDate ELSE tString
  IN  IF ~Has(schema, "enum")
      THEN Emitted(PropertyText(propertyName, isRequired, plainType, decorators), <<>>, <<>>, st)
      ELSE LET e == getEnumNameFromProperty(propertyName, schema.enum, context, st)
           IN  Emitted(PropertyText(propertyName, isRequired, e.name,
                                    Append(decorators, Decorator("IsEnum", e.name))),
                       <<>>,
                       <<EnumText(e.name, e.values, "inline")>>,
                       [e.st EXCEPT !.touched = Append(@, at)])

\* The property of an array or object that gets no class of its own.
Unnested(propertyName, isRequired, propertyType, decorators, st) ==
  Emitted(PropertyText(propertyName, isRequired, propertyType,
                       RemoveNestedDecorators(decorators)),
          <<>>, <<>>, st)

\* The property of an array or object whose inline properties were generated:
\* a class of its own when there is at least one (lines 437-466, 497-528),
\* the unnested form otherwise.
NestedProperty(propertyName, isRequired, nestedName, propertyType, decorators, unnestedType, unnestedDecorators, inner) ==
  IF ~inner.ok THEN Failed
  ELSE IF Len(inner.properties) = 0
  THEN Unnested(propertyName, isRequired, unnestedType, unnestedDecorators, inner.st)
  ELSE Emitted(PropertyText(propertyName, isRequired, propertyType,
                            ReplacePlaceholder(decorators, nestedName)),
               Append(inner.nestedClasses, ClassText(nestedName, <<>>, inner.properties)),
               inner.enums, inner.st)

\* Lines 380-396: an array whose items are a resolvable reference.
ArrayOfRef(propertyName, isRequired, decorators, a) ==
  Emitted(PropertyText(propertyName, isRequired, ArrayOf(a.name),
                       ReplacePlaceholder(decorators, a.name)),
          <<>>, <<>>, a.st)

RECURSIVE generateClassProperty(_, _, _, _, _, _, _)
RECURSIVE generateClassProperties(_, _, _, _, _)
RECURSIVE generateEach(_, _, _, _, _, _)
RECURSIVE ArrayItems(_, _, _, _, _, _, _, _, _, _)
RECURSIVE ArrayProperty(_, _, _, _, _, _, _, _)
RECURSIVE ObjectItems(_, _, _, _, _, _, _, _)
RECURSIVE ObjectProperty(_, _, _, _, _, _, _, _)
RECURSIVE TypedProperty(_, _, _, _, _, _, _, _)

\* Lines 376-478, once the name of the nested class is decided (line 374).
ArrayItems(propertyName, schema, isRequired, decorators, document, context, at, nested, itemRef, primitive) ==
  IF itemRef.found
  THEN ArrayOfRef(propertyName, isRequired, decorators,
                  getClassNameFromSchemaName(RefName(schema.items.ref), nested.st))
  ELSE IF ~Has(schema.items, "properties")
  THEN Unnested(propertyName, isRequired, primitive.type,
                decorators \o primitive.each, nested.st)
  ELSE NestedProperty(propertyName, isRequired, nested.name, ArrayOf(nested.name),
                      decorators, primitive.type, decorators \o primitive.each,
                      generateClassProperties(schema.items, document, nested.st, context,
                                              at \o <<"items">>))

\* Lines 372-478.
ArrayProperty(propertyName, schema, isRequired, decorators, document, st, context, at) ==
  ArrayItems(propertyName, schema, isRequired, decorators, document, context, at,
             getClassNameFromSchemaName(propertyName \o sItem, st),
             IF Has(schema.items, "ref") THEN resolveRef(schema.items.ref, document)
             ELSE NotFound,
             PrimitiveItems(schema.items))

\* Lines 481-541, once the name of the nested class is decided (line 479).
ObjectItems(propertyName, schema, isRequired, decorators, document, context, at, nested) ==
  IF ~Has(schema, "properties")
  THEN Unnested(propertyName, isRequired, tRecord, decorators, nested.st)
  ELSE NestedProperty(propertyName, isRequired, nested.name, nested.name,
                      decorators, tRecord, decorators,
                      generateClassProperties(schema, document, nested.st, context, at))

\* Lines 479-541.
ObjectProperty(propertyName, schema, isRequired, decorators, document, st, context, at) ==
  ObjectItems(propertyName, schema, isRequired, decorators, document, context, at,
              getClassNameFromSchemaName(propertyName \o sObject, st))

\* Lines 316-547: the property by the kind of its schema.
TypedProperty(propertyName, schema, isRequired, decorators, document, st, context, at) ==
  LET ref == IF Has(schema, "ref") THEN resolveRef(schema.ref, document) ELSE NotFound
  IN  IF ref.found
      THEN RefProperty(propertyName, schema, ref.schema, isRequired, decorators, st)
      ELSE IF TypeOf(schema) = "string"
      THEN StringProperty(propertyName, schema, isRequired, decorators, st, context, at)
      ELSE IF TypeOf(schema) \in {"number", "integer"}
      THEN Emitted(PropertyText(propertyName, isRequired, tNumber, decorators), <<>>, <<>>, st)
      ELSE IF TypeOf(schema) = "boolean"
      THEN Emitted(PropertyText(propertyName, isRequired, tBoolean, decorators), <<>>, <<>>, st)
      ELSE IF TypeOf(schema) = "array" /\ Has(schema, "items")
      THEN ArrayProperty(propertyName, schema, isRequired, decorators, document, st, context, at)
      ELSE IF TypeOf(schema) = "object" \/ Has(schema, "properties")
      THEN ObjectProperty(propertyName, schema, isRequired, decorators, document, st, context, at)
      ELSE Emitted(PropertyText(propertyName, isRequired, tAny, decorators), <<>>, <<>>, st)

\* Lines 288-549.
generateClassProperty(propertyName, schema, required, document, st, context, at) ==
  TypedProperty(propertyName, schema, Contains(required, propertyName),
                generateDecorators(schema, propertyName, Contains(required, propertyName)),
                document, st, context, at)

\* Lines 629-641: the result of one property joins those before it.
Collect(acc, r) ==
  IF ~r.ok THEN Failed
  ELSE [ok |-> TRUE,
        properties |-> Append(acc.properties, r.property),
        nestedClasses |-> acc.nestedClasses \o r.nestedClasses,
        enums |-> acc.enums \o r.enums,
        st |-> r.st]

\* Lines 623-643: one property after the other, the registries threaded.
generateEach(properties, i, required, document, context, acc) ==
  IF i > Len(properties) \/ ~acc.ok THEN acc
  ELSE generateEach(properties, i + 1, required, document, context,
         Collect(acc, generateClassProperty(properties[i].k, properties[i].v, required,
                                            document, acc.st, context, properties[i].at)))

\* Lines 616-621: the properties a class is generated from.
FlattenedProperties(schema, document, at) == mergeParentProperties(schema, document, 1, at)

\* Lines 623-645, over the flattened properties.
GenerateMerged(merged, document, st, context) ==
  IF ~merged.ok THEN Failed
  ELSE generateEach(merged.properties, 1, merged.required, document, context,
         [ok |-> TRUE, properties |-> <<>>, nestedClasses |-> <<>>,
          enums |-> <<>>, st |-> st])

\* Lines 601-646.
generateClassProperties(schema, document, st, context, at) ==
  GenerateMerged(FlattenedProperties(schema, document, at), document, st, context)


-----------------------------------------------------------------------------
(* generateClassesFromOpenAPI (lines 649-903)                              *)

\* Lines 699-709: the declaration of one top-level enum schema.
TopLevelEnums(document) ==
  LET enumSchemas == getEnums(document)
  IN  [i \in 1..Len(enumSchemas) |->
         EnumText(enumSchemas[i].k, enumSchemas[i].v.enum, "schema")]

\* Lines 766-783: the auxiliary class of one parent after the first, made of
\* the properties no auxiliary class before it has.  acc holds ok, the
\* registries, the properties already given and the auxiliary classes.
IntermediateClass(acc, intermediateClassName, gen) ==
  IF ~gen.ok THEN Failed
  ELSE LET uniqueProps == SelectSeq(gen.properties, LAMBDA prop : prop \notin acc.seen)
       IN  [ok |-> TRUE,
            st |-> gen.st,
            seen |-> acc.seen \cup Range(uniqueProps),
            classes |-> IF Len(uniqueProps) > 0
                        THEN Append(acc.classes,
                                    ClassText(intermediateClassName, <<>>, uniqueProps))
                        ELSE acc.classes]

\* Lines 758-765: the name and the properties of that class.
IntermediateOf(parentName, className, document, acc, a) ==
  IntermediateClass(acc, className \o sWith \o a.name,
                    generateClassProperties(MapGet(document.schemas, parentName),
                                            document, a.st, parentName,
                                            SchemaAt(document, parentName)))

\* Lines 754-784: the auxiliary classes of the parents after the first.
RECURSIVE intermediateClasses(_, _, _, _, _)
intermediateClasses(parents, i, className, document, acc) ==
  IF i > Len(parents) \/ ~acc.ok THEN acc
  ELSE IF ~MapHas(document.schemas, parents[i])
  THEN intermediateClasses(parents, i + 1, className, document, acc)
  ELSE intermediateClasses(parents, i + 1, className, document,
         IntermediateOf(parents[i], className, document, acc,
                        getClassNameFromSchemaName(parents[i], acc.st)))

NoInheritance(st) == [ok |-> TRUE, extends |-> <<>>, classes |-> <<>>, st |-> st]

\* Lines 749-786: the first parent is extended, the others get auxiliary
\* classes.
ExtendsPrimary(parents, className, document, primary) ==
  LET more == intermediateClasses(parents, 2, className, document,
                [ok |-> TRUE, st |-> primary.st, seen |-> {}, classes |-> <<>>])
  IN  IF ~more.ok THEN Failed
      ELSE [ok |-> TRUE, extends |-> primary.name, classes |-> more.classes, st |-> more.st]

\* Lines 745-787, over the parents found.
InheritanceOf(all, className, document, st) ==
  IF ~all.ok THEN Failed
  ELSE IF Len(all.parents) = 0 THEN NoInheritance(st)
  ELSE ExtendsPrimary(all.parents, className, document,
                      getClassNameFromSchemaName(all.parents[1], st))

\* Lines 740-787: the extends clause and the auxiliary classes of a schema.
Inheritance(schema, className, document, st) ==
  IF ~Has(schema, "allOf") THEN NoInheritance(st)
  ELSE InheritanceOf(getAllParentClasses(schema, document, 1), className, document, st)

\* What one iteration of a loop of the run leaves behind.
Progress(st, enums, base, child, emitted) ==
  [ok |-> TRUE, st |-> st, enums |-> enums, base |-> base, child |-> child,
   emitted |-> emitted]

\* Lines 789-809: the class of a schema joins the child classes when it
\* extends, the base classes otherwise.  A nested class never contains
\* ' extends ' (line 796), so it is a base class.
SchemaClass(className, gen, inh) ==
  IF ~inh.ok THEN Failed
  ELSE IF inh.extends # <<>>
  THEN Progress(inh.st, gen.enums, inh.classes \o gen.nestedClasses,
                <<ClassText(className, inh.extends, gen.properties)>>, TRUE)
  ELSE Progress(inh.st, gen.enums,
                inh.classes \o gen.nestedClasses
                  \o <<ClassText(className, inh.extends, gen.properties)>>,
                <<>>, TRUE)

\* Lines 727-809: a schema without properties gets no class.
SchemaProperties(schema, className, document, gen) ==
  IF ~gen.ok THEN Failed
  ELSE IF Len(gen.properties) = 0 THEN Progress(gen.st, <<>>, <<>>, <<>>, FALSE)
  ELSE SchemaClass(className, gen, Inheritance(schema, className, document, gen.st))

\* Lines 723-809.
NamedSchema(schemaName, schema, document, a) ==
  SchemaProperties(schema, a.name, document,
                   generateClassProperties(schema, document, a.st, schemaName,
                                           SchemaAt(document, schemaName)))

\* Lines 717-811: one iteration of the loop over sortedSchemas.
processOneSchema(schemaName, document, processed, st) ==
  IF ~MapHas(document.schemas, schemaName) \/ schemaName \in processed
  THEN Progress(st, <<>>, <<>>, <<>>, FALSE)
  ELSE NamedSchema(schemaName, MapGet(document.schemas, schemaName), document,
                   getClassNameFromSchemaName(schemaName, st))

ExtendsNamed(a) == [extends |-> a.name, st |-> a.st]

\* Lines 847-861: the extends clause of a response class.
ResponseExtends(schema, st) ==
  IF Has(schema, "allOf")
  THEN IF Len(SelectSeq(schema.allOf, HasLocalRef)) = 0 THEN [extends |-> <<>>, st |-> st]
       ELSE ExtendsNamed(getClassNameFromSchemaName(
                           RefName(SelectSeq(schema.allOf, HasLocalRef)[1].ref), st))
  ELSE IF HasLocalRef(schema)
  THEN ExtendsNamed(getClassNameFromSchemaName(RefName(schema.ref), st))
  ELSE [extends |-> <<>>, st |-> st]

\* Lines 863-880: the response class joins the child classes when it
\* extends, the base classes otherwise.
ResponseClass(acc, className, gen, ext) ==
  IF ext.extends # <<>>
  THEN Progress(ext.st, acc.enums \o gen.enums, acc.base \o gen.nestedClasses,
                Append(acc.child, ClassText(className, ext.extends, gen.properties)), TRUE)
  ELSE Progress(ext.st, acc.enums \o gen.enums,
                acc.base \o gen.nestedClasses
                  \o <<ClassText(className, ext.extends, gen.properties)>>,
                acc.child, TRUE)

\* Lines 833-880: a response schema without properties gets no class.
ResponseProperties(schema, acc, className, gen) ==
  IF ~gen.ok THEN Failed
  ELSE IF Len(gen.properties) = 0
  THEN Progress(gen.st, acc.enums, acc.base, acc.child, acc.emitted)
  ELSE ResponseClass(acc, className, gen, ResponseExtends(schema, gen.st))

\* Lines 828-880.
NamedResponse(operationId, schema, document, acc, a, at) ==
  ResponseProperties(schema, acc, a.name,
                     generateClassProperties(schema, document, a.st, operationId, at))

\* Lines 826-881: the class of one content type of a response.
processOneContent(operationId, statusCode, media, document, acc, at) ==
  IF ~Has(media, "schema") THEN acc
  ELSE NamedResponse(operationId, media.schema, document, acc,
                     getClassNameFromOperationId(operationId, statusCode, acc.st),
                     at \o <<"schema">>)

\* Lines 825-882: the loop over the content types of one response.
RECURSIVE contentLoop(_, _, _, _, _, _, _)
contentLoop(operationId, statusCode, content, i, document, acc, at) ==
  IF i > Len(content) \/ ~acc.ok THEN acc
  ELSE contentLoop(operationId, statusCode, content, i + 1, document,
                   processOneContent(operationId, statusCode, content[i].v, document, acc,
                                     at \o <<"content", i, "v">>),
                   at)

\* A mutant of Is2xx: every status is taken.
Is2xxAlways(statusCode) == TRUE

\* statusCode.startsWith('2') (line 821)
Is2xx(statusCode) == StartsWith(statusCode, <<"2">>)

\* Lines 817-883: one response of one operation.
processOneResponse(operationId, statusCode, response, document, st, at) ==
  IF operationId = <<>> \/ ~Is2xx(statusCode) \/ ~Has(response, "content")
  THEN Progress(st, <<>>, <<>>, <<>>, FALSE)
  ELSE contentLoop(operationId, statusCode, response.content, 1, document,
                   Progress(st, <<>>, <<>>, <<>>, FALSE), at)

\* The (operation, status) pairs in the order of the loops of lines 815-819.
\* document.paths holds the operations of every path in the order of
\* Object.entries, an operation without operationId with operationId <<>>,
\* and responses holds the statuses in the order Object.entries yields them;
\* at is the place of the response in the document.
RECURSIVE ResponsesFrom(_, _)
ResponsesFrom(paths, i) ==
  IF i > Len(paths) THEN <<>>
  ELSE [j \in 1..Len(paths[i].responses) |->
          [operationId |-> paths[i].operationId,
           statusCode |-> paths[i].responses[j].k,
           response |-> paths[i].responses[j].v,
           at |-> <<"paths", i, "responses", j, "v">>]]
       \o ResponsesFrom(paths, i + 1)

Responses(document) == ResponsesFrom(document.paths, 1)

-----------------------------------------------------------------------------
(* The generation run, one loop iteration per step                         *)

sortVars == <<dependencyGraph, cycles, sorted, sortedSchemas>>

\* A mutant of Start: schemaToClassName is not cleared.
StartKeepingCache ==
  /\ pc = "start"
  /\ generatedEnums' = TopLevelEnums(doc)
  /\ log' = log \cup {[fn |-> "parsed", document |-> doc]}
  /\ pc' = "graph"
  /\ UNCHANGED <<doc, schemaToClassName, usedNames, usedEnums, baseClasses, childClasses,
                 processedSchemas, cursor, output>>
  /\ UNCHANGED sortVars

\* Lines 651-709: the cache is cleared, the document parsed (the log keeps
\* what the parser returned), the registries are made and the top-level enums
\* declared.
Start ==
  /\ pc = "start"
  /\ schemaToClassName' = <<>>
  /\ generatedEnums' = TopLevelEnums(doc)
  /\ log' = log \cup {[fn |-> "parsed", document |-> doc]}
  /\ pc' = "graph"
  /\ UNCHANGED <<doc, usedNames, usedEnums, baseClasses, childClasses,
                 processedSchemas, cursor, output>>
  /\ UNCHANGED sortVars

\* Line 712.
BuildGraph ==
  /\ pc = "graph"
  /\ dependencyGraph' = buildSchemaDependencyGraph(doc)
  /\ pc' = "sort1"
  /\ UNCHANGED <<doc, cycles, sorted, sortedSchemas, cursor>>
  /\ UNCHANGED runVars

\* An uncaught RangeError ends the run: nothing is written.
Abort ==
  /\ pc' = "failed"
  /\ UNCHANGED <<doc, cursor>>
  /\ UNCHANGED runVars
  /\ UNCHANGED sortVars

\* enumValues.sort() (line 108) sorts the array it is given in place, and
\* the array is the enum of the schema object at the place path leads to.
RECURSIVE SortEnumAt(_, _, _)
SortEnumAt(x, path, i) ==
  IF i > Len(path) THEN [x EXCEPT !.enum = ArraySort(@)]
  ELSE [x EXCEPT ![path[i]] = SortEnumAt(@, path, i + 1)]

\* The document after the calls of line 108 on the places touched.
RECURSIVE SortEnumsAt(_, _, _)
SortEnumsAt(document, touched, i) ==
  IF i > Len(touched) THEN document
  ELSE SortEnumsAt(SortEnumAt(document, touched[i], 1), touched, i + 1)

\* Lines 98-102 and 57-61: whether Math.random was called is kept in the log.
Drawn(r) == IF r.st.draws > 0 THEN {[fn |-> "random"]} ELSE {}

Commit(r, nextPc) ==
  /\ doc' = SortEnumsAt(doc, r.st.touched, 1)
  /\ schemaToClassName' = r.st.cache
  /\ usedNames' = r.st.names
  /\ usedEnums' = r.st.enums
  /\ generatedEnums' = generatedEnums \o r.enums
  /\ baseClasses' = baseClasses \o r.base
  /\ childClasses' = childClasses \o r.child
  /\ pc' = nextPc
  /\ cursor' = cursor + 1
  /\ UNCHANGED output
  /\ UNCHANGED sortVars

\* What the iteration for sortedSchemas[cursor] leaves in the registries and
\* the lists.
SchemaStep(r) ==
  IF ~r.ok THEN Abort
  ELSE /\ r.st.draws <= MaxDraws
       /\ Commit(r, "schemas")
       /\ processedSchemas' = IF r.emitted
                              THEN processedSchemas \cup {sortedSchemas[cursor]}
                              ELSE processedSchemas
       /\ log' = log \cup Drawn(r)

\* Lines 717-811: the iteration for sortedSchemas[cursor].
ProcessSchema ==
  /\ pc = "schemas"
  /\ cursor <= Len(sortedSchemas)
  /\ \E rnd \in TokenOracles :
       SchemaStep(processOneSchema(sortedSchemas[cursor], doc, processedSchemas,
                    Registries(schemaToClassName, usedNames, usedEnums, rnd)))

\* Line 815: the loop over the schemas has ended.
SchemasDone ==
  /\ pc = "schemas"
  /\ cursor > Len(sortedSchemas)
  /\ pc' = "paths"
  /\ cursor' = 1
  /\ UNCHANGED doc
  /\ UNCHANGED runVars
  /\ UNCHANGED sortVars

\* What the iteration for one response leaves in the registries and the
\* lists.
ResponseStep(r) ==
  IF ~r.ok THEN Abort
  ELSE /\ r.st.draws <= MaxDraws
       /\ Commit(r, "paths")
       /\ UNCHANGED processedSchemas
       /\ log' = log \cup Drawn(r) \cup {[fn |-> "response", at |-> cursor,
                            emitted |-> r.emitted,
                            classes |-> Range(r.base) \cup Range(r.child),
                            enums |-> Range(r.enums)]}

\* Lines 819-883: the iteration for one response of one operation.
ProcessResponse ==
  /\ pc = "paths"
  /\ cursor <= Len(Responses(doc))
  /\ \E rnd \in TokenOracles :
       ResponseStep(processOneResponse(Responses(doc)[cursor].operationId,
                                       Responses(doc)[cursor].statusCode,
                                       Responses(doc)[cursor].response, doc,
                      Registries(schemaToClassName, usedNames, usedEnums, rnd),
                                       Responses(doc)[cursor].at))

\* A mutant of Assembled: the enum declarations come last.
AssembledEnumsLast(out) == out.base \o out.child \o out.enums

\* Lines 887-892: the text written, as the sequence of its declarations.
Assembled(out) == out.enums \o out.base \o out.child

\* Lines 887-892: the three lists, each without repeated text.
Assemble ==
  /\ pc = "paths"
  /\ cursor > Len(Responses(doc))
  /\ output' = [enums |-> Dedup(generatedEnums),
                base |-> Dedup(baseClasses),
                child |-> Dedup(childClasses)]
  /\ pc' = "done"
  /\ UNCHANGED <<doc, schemaToClassName, usedNames, usedEnums, generatedEnums,
                 baseClasses, childClasses, processedSchemas, cursor, log>>
  /\ UNCHANGED sortVars


\* The most runs of generateClassesFromOpenAPI in one process.
MaxRuns == 2

EarlierRuns == {e \in log : e.fn = "run"}

\* The document parseOpenAPIFile returned to the run (line 654).
ParsedDocument == (CHOOSE e \in log : e.fn = "parsed").document

\* The process calls generateClassesFromOpenAPI again on the same file: the
\* locals of the call are new (lines 689-695) and the file is parsed again
\* (line 654), while the module-level schemaToClassName (line 8) is the map
\* the earlier run left; the log keeps what the earlier run wrote.
Rerun ==
  /\ pc = "done"
  /\ Cardinality(EarlierRuns) < MaxRuns - 1
  /\ log' = log \cup {[fn |-> "run", n |-> Cardinality(EarlierRuns) + 1,
                       written |-> output, order |-> sortedSchemas]}
  /\ doc' = ParsedDocument
  /\ pc' = "start"
  /\ usedNames' = {}
  /\ usedEnums' = <<>>
  /\ generatedEnums' = <<>>
  /\ baseClasses' = <<>>
  /\ childClasses' = <<>>
  /\ processedSchemas' = {}
  /\ output' = NoOutput
  /\ dependencyGraph' = <<>>
  /\ cycles' = {}
  /\ sorted' = <<>>
  /\ sortedSchemas' = <<>>
  /\ cursor' = 1
  /\ UNCHANGED schemaToClassName

-----------------------------------------------------------------------------
(* The documents of the model                                              *)

\* The most schemas a document declares.
MaxSchemas == 3

nPet == <<"P","e","t">>
nDog == <<"D","o","g">>
nStatus == <<"S","t","a","t","u","s">>

pId == <<"i","d">>
pName == <<"n","a","m","e">>
pBreed == <<"b","r","e","e","d">>
pOwner == <<"o","w","n","e","r">>
pFriends == <<"f","r","i","e","n","d","s">>
pInfo == <<"i","n","f","o">>
pTag == <<"t","a","g">>

vAvailable == <<"a","v","a","i","l","a","b","l","e">>
vSold == <<"s","o","l","d">>

s200 == <<"2","0","0">>
s201 == <<"2","0","1">>
s404 == <<"4","0","4">>

Entry(key, val) == [k |-> key, v |-> val]

tyString == [type |-> "string"]
tyInteger == [type |-> "integer"]

Ref(name) == [ref |-> RefTo(name)]

\* Pet of scenarios A and B: id, and name required.
PetSchema ==
  [type |-> "object",
   properties |-> <<Entry(pId, tyInteger), Entry(pName, tyString)>>,
   required |-> <<pName>>]

\* A schema composed from a reference to a parent and its own field breed.
ChildOf(parent) ==
  [allOf |-> <<Ref(parent),
               [type |-> "object", properties |-> <<Entry(pBreed, tyString)>>]>>]

\* A schema composed from references to Pet and to Dog and its own field tag.
TwoParents ==
  [allOf |-> <<Ref(nPet), Ref(nDog)>>, properties |-> <<Entry(pTag, tyString)>>]

\* A top-level string enum.
TopLevelEnum == [type |-> "string", enum |-> <<vAvailable, vSold>>]

\* An inline enum under the given field, its values in the given order.
InlineEnum(field, values) ==
  [type |-> "object",
   properties |-> <<Entry(field, [type |-> "string", enum |-> values])>>]

\* A field that refers to a named schema, and an array of such references.
RefField(target) ==
  [type |-> "object", properties |-> <<Entry(pOwner, Ref(target))>>, required |-> <<pOwner>>]

RefItems(target) ==
  [type |-> "object",
   properties |-> <<Entry(pFriends, [type |-> "array", items |-> Ref(target)])>>]

\* A nested object, which gets a class of its own.
NestedObject ==
  [type |-> "object",
   properties |-> <<Entry(pInfo, [type |-> "object",
                                  properties |-> <<Entry(pTag, tyString)>>])>>]

\* A nested object under the same property name with another field.
NestedObjectOther ==
  [type |-> "object",
   properties |-> <<Entry(pInfo, [type |-> "object",
                                  properties |-> <<Entry(pId, tyInteger)>>])>>]

\* An object without properties.
EmptyObject == [type |-> "object"]

SchemaNames == {nPet, nDog, nStatus}

SchemaShapes ==
  {PetSchema, TopLevelEnum, NestedObject, NestedObjectOther, EmptyObject,
   InlineEnum(pStatus, <<vSold, vAvailable>>)}
    \cup {ChildOf(n) : n \in {nPet, nDog}}
    \cup {TwoParents}
    \cup {RefField(n) : n \in SchemaNames}
    \cup {RefItems(n) : n \in {nPet, nDog}}

\* What a response may be: no content, or one content type with a schema.
Media(schema) == [content |-> <<Entry(<<"j","s","o","n">>, [schema |-> schema])>>]

ResponseShapes ==
  {[description |-> "none"],
   Media(InlineEnum(pStatus, <<vAvailable, vSold>>)),
   Media(InlineEnum(pState, <<vSold, vAvailable>>)),
   Media(ChildOf(nPet)),
   Media(Ref(nPet))}

StatusCodes == <<s200, s201, s404>>

\* The responses of one operation: any subset of the statuses, in the order
\* Object.entries yields integer-like keys (ascending).
RECURSIVE ResponseMaps(_)
ResponseMaps(i) ==
  IF i > Len(StatusCodes) THEN {<<>>}
  ELSE LET rest == ResponseMaps(i + 1)
       IN  rest \cup {<<Entry(StatusCodes[i], r)>> \o m : r \in ResponseShapes, m \in rest}

Operations ==
  {[operationId |-> id, responses |-> m] : id \in {cGetPet}, m \in ResponseMaps(1)}

\* The schemas the documents with operations declare.
SchemasUnderOperations == {<<>>, <<Entry(nPet, PetSchema)>>}

InitRun ==
  /\ pc = "start"
  /\ \/ \E keys \in SeqsNoDup(SchemaNames, MaxSchemas) :
          \E shapes \in [1..Len(keys) -> SchemaShapes] :
            doc = [schemas |-> [i \in 1..Len(keys) |-> Entry(keys[i], shapes[i])],
                   paths |-> <<>>]
     \/ \E schemas \in SchemasUnderOperations, op \in Operations :
          doc = [schemas |-> schemas, paths |-> <<op>>]
  /\ dependencyGraph = <<>>
  /\ FreshRun
  /\ SorterIdle

Next ==
  \/ Start
  \/ BuildGraph
  \/ FirstPass
  \/ SecondPass
  \/ ProcessSchema
  \/ SchemasDone
  \/ ProcessResponse
  \/ Assemble
  \/ Rerun

\* The runs of generateClassesFromOpenAPI on every document within the bounds.
Spec == InitRun /\ [][Next]_vars


-----------------------------------------------------------------------------
(* Properties of the generation run                                        *)

Done == pc = "done"

ClassesOf(out) == Range(out.base) \cup Range(out.child)

PropertyNames(class) == [i \in 1..Len(class.properties) |-> class.properties[i].name]

\* C4: a document whose schemas refer to each other in a cycle (through
\* property references, array items, allOf or a self reference) never makes
\* the run fail.
C4_CyclesNeverFail ==
  (\E n \in KeySet(dependencyGraph) : OnCycle(dependencyGraph, n)) => pc # "failed"

\* C7: in the output, an inline enum and any other enum (inline or from a
\* top-level enum schema) with the same value set are one declaration, and no
\* two enum declarations have the same name.
C7_EnumsCollapse ==
  Done =>
    \A i, j \in 1..Len(output.enums) :
      i # j =>
        /\ output.enums[i].origin = "inline" =>
             ~SameValueSet(output.enums[i].values, output.enums[j].values)
        /\ output.enums[i].name # output.enums[j].name

\* Scenario B: Pet is a base object with id and name, Dog is allOf of a
\* reference to Pet and an object with breed.
ScenarioB ==
  /\ MapHas(doc.schemas, nPet) /\ MapGet(doc.schemas, nPet) = PetSchema
  /\ MapHas(doc.schemas, nDog) /\ MapGet(doc.schemas, nDog) = ChildOf(nPet)

\* C8: in scenario B the class Dog extends Pet and declares breed only.
C8_ChildDeclaresOwnOnly ==
  (Done /\ ScenarioB) =>
    \E c \in Range(output.child) :
      /\ c.name = nDog
      /\ c.extends = nPet
      /\ PropertyNames(c) = <<pBreed>>

\* Scenario C: the responses of operation getPet that carry an object with
\* one inline enum of the values available and sold, in either order (the
\* run may have sorted the list).
EnumResponseSchemas ==
  {InlineEnum(pStatus, <<vAvailable, vSold>>), InlineEnum(pState, <<vSold, vAvailable>>),
   InlineEnum(pState, <<vAvailable, vSold>>)}

EnumResponses(op) ==
  {e \in Range(op.responses) :
     /\ Has(e.v, "content")
     /\ \A i \in 1..Len(e.v.content) :
          Has(e.v.content[i].v, "schema") /\ e.v.content[i].v.schema \in EnumResponseSchemas}

ResponseClassName(statusCode) == <<"G","e","t","P","e","t">> \o statusCode \o sResponse

Success(statusCode) == Head(statusCode) = "2"

EnumTypeOf(class) == class.properties[1].type

\* C9, as the spec has it: with a 200 and a 404 response that carry the same
\* inline enum, the output has the classes GetPet200Response and
\* GetPet404Response, and they share one enum.
C9_BothResponseClasses ==
  Done =>
    \A op \in Range(doc.paths) :
      {e.k : e \in EnumResponses(op)} = {s200, s404} =>
        \A e \in EnumResponses(op) :
          /\ Len(output.enums) = 1
          /\ \E c \in ClassesOf(output) :
               /\ c.name = ResponseClassName(e.k)
               /\ EnumTypeOf(c) = output.enums[1].name

\* C9, amended: every 2xx response of getPet that carries the inline enum has
\* its class GetPet<status>Response, all these classes refer to the one enum
\* that is declared, and a response of another status has no class.
C9_SuccessResponsesShareEnum ==
  Done =>
    \A op \in Range(doc.paths) :
      \A e \in EnumResponses(op) :
        IF Success(e.k)
        THEN /\ Len(output.enums) = 1
             /\ \E c \in ClassesOf(output) :
                  /\ c.name = ResponseClassName(e.k)
                  /\ EnumTypeOf(c) = output.enums[1].name
        ELSE \A c \in ClassesOf(output) : c.name # ResponseClassName(e.k)

\* Two 2xx responses with the enum under different fields and in different
\* orders, and a 404 response with it, have been generated from.
C9_Witness ==
  /\ Done
  /\ \E op \in Range(doc.paths) :
       /\ {e.k : e \in EnumResponses(op)} = {s200, s201, s404}
       /\ \E e1, e2 \in EnumResponses(op) :
            /\ e1.k = s200 /\ e2.k = s201
            /\ e1.v # e2.v
  /\ Len(output.enums) = 1
  /\ {c.name : c \in ClassesOf(output)} = {ResponseClassName(s200), ResponseClassName(s201)}

\* C10: the step for a response whose status does not start with '2' emits
\* no class, reserves no class name and registers no enum.
C10_OnlySuccessResponses ==
  [][(/\ pc = "paths"
      /\ cursor <= Len(Responses(doc))
      /\ ~Success(Responses(doc)[cursor].statusCode))
       => UNCHANGED <<schemaToClassName, usedNames, usedEnums, generatedEnums,
                      baseClasses, childClasses>>]_vars

\* A 404 response with a schema has been stepped over, after a 2xx response
\* left its class.
C10_Witness ==
  /\ baseClasses # <<>>
  /\ \E e \in log :
       /\ e.fn = "response"
       /\ ~e.emitted
       /\ ~Success(Responses(doc)[e.at].statusCode)
       /\ Responses(doc)[e.at].response \in {Media(sch) : sch \in EnumResponseSchemas}


-----------------------------------------------------------------------------
(* The input document                                                      *)

Started == \E e \in log : e.fn = "parsed"

\* C11: the parsed document is never mutated: at every point of a run every
\* schema, property map, required list and enum value list of the document
\* is, element for element and in order, what the parser returned.
C11_DocumentNeverMutated == Started => doc = ParsedDocument


-----------------------------------------------------------------------------
(* The order of the declarations written                                   *)

IsEnumDeclaration(d) == "values" \in DOMAIN d

IsClassDeclaration(d) == "properties" \in DOMAIN d

IsDerivedClass(d) == IsClassDeclaration(d) /\ d.extends # <<>>

IsBaseClass(d) == IsClassDeclaration(d) /\ d.extends = <<>>

-----------------------------------------------------------------------------
(* The auxiliary classes of additional parents                             *)

\* The named schemas the allOf list of a schema itself refers to, in order.
OwnReferences(schema) ==
  IF Has(schema, "allOf")
  THEN Dedup([i \in 1..Len(SelectSeq(schema.allOf, HasLocalRef)) |->
                RefName(SelectSeq(schema.allOf, HasLocalRef)[i].ref)])
  ELSE <<>>

\* The class is the auxiliary class of schema child for parent.
IsAuxiliaryOf(class, child, parent) ==
  /\ MapHas(schemaToClassName, child)
  /\ MapHas(schemaToClassName, parent)
  /\ class.name = MapGet(schemaToClassName, child) \o sWith \o MapGet(schemaToClassName, parent)

MergedFields(merged) == IF merged.ok THEN KeySet(merged.properties) ELSE {}

\* The fields the flattening of a schema has, none for an undeclared one.
FlattenedFields(schemaName) ==
  IF MapHas(doc.schemas, schemaName)
  THEN MergedFields(FlattenedProperties(MapGet(doc.schemas, schemaName), doc,
                                        SchemaAt(doc, schemaName)))
  ELSE {}

\* C16: an auxiliary 'With' class of a schema is there only for a reference
\* of the schema's own allOf list after the first (none for a list with a
\* single reference, whatever the parents of that parent), it has no field
\* the primary parent has, it extends nothing and no class extends it.
C16_AuxiliaryOnlyForOwnAdditionalParents ==
  Done =>
    \A class \in ClassesOf(output) :
      \A child \in KeySet(doc.schemas), parent \in KeySet(doc.schemas) :
        IsAuxiliaryOf(class, child, parent) =>
          /\ \E i \in 2..Len(OwnReferences(MapGet(doc.schemas, child))) :
               OwnReferences(MapGet(doc.schemas, child))[i] = parent
          /\ Range(PropertyNames(class))
               \cap FlattenedFields(OwnReferences(MapGet(doc.schemas, child))[1]) = {}
          /\ class.extends = <<>>
          /\ \A other \in ClassesOf(output) : other.extends # class.name


-----------------------------------------------------------------------------
(* The classes extended                                                    *)

\* C20: every class named in an extends clause of the text written is
\* declared in the text, before the class that extends it.
C20_ExtendedClassDeclaredBefore ==
  Done =>
    \A j \in 1..Len(Assembled(output)) :
      IsDerivedClass(Assembled(output)[j]) =>
        \E i \in 1..(j - 1) :
          /\ IsClassDeclaration(Assembled(output)[i])
          /\ Assembled(output)[i].name = Assembled(output)[j].extends


-----------------------------------------------------------------------------
(* The dependency graph                                                    *)

\* The schemas directly inside a schema: the members of its allOf list, the
\* schemas of its properties and its item schema.
PartsIn(schema) ==
  (IF Has(schema, "allOf") THEN Range(schema.allOf) ELSE {})
    \cup (IF Has(schema, "properties") THEN {e.v : e \in Range(schema.properties)} ELSE {})
    \cup (IF Has(schema, "items") THEN {schema.items} ELSE {})

\* The least set of schemas that holds set and the parts of its members.
RECURSIVE NestedParts(_)
NestedParts(set) ==
  LET next == set \cup UNION {PartsIn(x) : x \in set}
  IN  IF next = set THEN set ELSE NestedParts(next)

\* The schema names a schema refers to, at any depth.
NamesReferredTo(schema) ==
  {RefName(x.ref) : x \in {y \in NestedParts({schema}) : HasLocalRef(y)}}

GraphBuilt == pc \notin {"start", "graph"}

\* C15: the graph built has one entry for each declared schema, and the
\* entry of a schema holds the names the schema refers to itself, in a
\* property, in the items of an array or in a member of an allOf list, at
\* any depth (none: the empty set); the references of an allOf list are in
\* the same set as the others.
C15_GraphIsTheReferences ==
  GraphBuilt =>
    /\ Keys(dependencyGraph) = Keys(doc.schemas)
    /\ \A i \in 1..Len(dependencyGraph) :
         /\ Range(dependencyGraph[i].v) = NamesReferredTo(doc.schemas[i].v)
         /\ NoDup(dependencyGraph[i].v)

\* A graph with a schema that refers to nothing, and one with a schema that
\* refers to another in the items of an array property and one that does so
\* in its allOf list.
C15_Witness ==
  /\ GraphBuilt
  /\ Len(dependencyGraph) = 2
  /\ \/ /\ dependencyGraph[1].v = <<>>
        /\ doc.schemas[2].v = RefItems(dependencyGraph[1].k)
        /\ dependencyGraph[2].v = <<dependencyGraph[1].k>>
     \/ /\ doc.schemas[1].v = ChildOf(nDog)
        /\ dependencyGraph[1].v = <<nDog>>


-----------------------------------------------------------------------------
(* Two runs in one process                                                 *)

RandomReached == \E e \in log : e.fn = "random"

\* C14: schemaToClassName is empty when a run has started, and a run over
\* the document of an earlier run of the process ends with the emission
\* order and the declarations (names included) of the earlier run, when no
\* run drew a random token.
C14_DeterministicRuns ==
  /\ pc = "graph" => schemaToClassName = <<>>
  /\ (Done /\ ~RandomReached) =>
       \A e \in EarlierRuns : e.written = output /\ e.order = sortedSchemas

\* A second run has ended after a first that left names in the registry.
C14_Witness ==
  /\ Done
  /\ ~RandomReached
  /\ schemaToClassName # <<>>
  /\ \E e \in EarlierRuns : e.written.base # <<>> /\ e.written.enums # <<>>


-----------------------------------------------------------------------------
(* The flattener applied to the schemas of composite documents             *)

\* The most members of one allOf list.
MaxMembers == 2

\* Schemas without allOf: id required; id and name, nothing required; no
\* properties at all.
MergeBases ==
  {[type |-> "object", properties |-> <<Entry(pId, tyString)>>, required |-> <<pId>>],
   [type |-> "object", properties |-> <<Entry(pId, tyString), Entry(pName, tyString)>>],
   [type |-> "object"]}

\* The members of an allOf list: references to Pet, to Dog and to the
\* undeclared Status, and two inline members.
MergeMembers ==
  {Ref(nPet), Ref(nDog), Ref(nStatus),
   [properties |-> <<Entry(pId, tyInteger)>>, required |-> <<pId>>],
   [properties |-> <<Entry(pName, tyInteger)>>]}

MergeMemberLists == UNION {[1..n -> MergeMembers] : n \in 1..MaxMembers}

\* Schemas with allOf: with no properties of their own, with the required
\* field name, with the field id.
MergeComposites ==
  UNION {{[allOf |-> members],
          [allOf |-> members, properties |-> <<Entry(pName, tyString)>>,
           required |-> <<pName>>],
          [allOf |-> members, properties |-> <<Entry(pId, tyInteger)>>]}
         : members \in MergeMemberLists}

MergeShapes == MergeBases \cup MergeComposites

\* The properties of a flattened schema without their places.
Declarations(properties) ==
  [i \in 1..Len(properties) |-> Entry(properties[i].k, properties[i].v)]

Flattened(merged) ==
  IF merged.ok
  THEN [ok |-> TRUE, properties |-> Declarations(merged.properties),
        required |-> merged.required]
  ELSE Overflow

\* One call mergeParentProperties(schema, openApiDocument, ...) for the
\* schema at cursor, as generateClassProperties makes it (lines 616-621).
Flatten ==
  /\ pc = "merge"
  /\ cursor <= Len(doc.schemas)
  /\ log' = log \cup
       {[fn |-> "merge", schemaName |-> doc.schemas[cursor].k,
         result |-> Flattened(FlattenedProperties(doc.schemas[cursor].v, doc,
                                                  SchemaAt(doc, doc.schemas[cursor].k)))]}
  /\ cursor' = cursor + 1
  /\ UNCHANGED <<pc, doc, schemaToClassName, usedNames, usedEnums, generatedEnums,
                 baseClasses, childClasses, processedSchemas, dependencyGraph, output>>
  /\ UNCHANGED <<cycles, sorted, sortedSchemas>>

InitMerge ==
  /\ pc = "merge"
  /\ \E pet \in MergeShapes, dog \in MergeShapes :
       doc = [schemas |-> <<Entry(nPet, pet), Entry(nDog, dog)>>, paths |-> <<>>]
  /\ dependencyGraph = <<>>
  /\ FreshRun
  /\ SorterIdle

NextMerge == Flatten

\* mergeParentProperties on each schema of every document of Pet and Dog.
SpecMerge == InitMerge /\ [][NextMerge]_vars

Merges == {e \in log : e.fn = "merge"}

\* The named schemas the allOf list of a schema refers to and the document
\* declares.
ResolvableParents(schema, document) ==
  IF Has(schema, "allOf")
  THEN {RefName(m.ref) : m \in {x \in Range(schema.allOf) : HasLocalRef(x)}}
         \cap KeySet(document.schemas)
  ELSE {}

\* The least set of names that holds set and the resolvable parents of its
\* members.
RECURSIVE AncestorClosure(_, _)
AncestorClosure(document, set) ==
  LET next == set \cup UNION {ResolvableParents(MapGet(document.schemas, n), document) : n \in set}
  IN  IF next = set THEN set ELSE AncestorClosure(document, next)

InlineMembers(schema) ==
  IF Has(schema, "allOf") THEN {x \in Range(schema.allOf) : ~Has(x, "ref")} ELSE {}

FieldsOf(part) == IF Has(part, "properties") THEN KeySet(part.properties) ELSE {}

RequiredOf(part) == IF Has(part, "required") THEN Range(part.required) ELSE {}

\* A schema, its inline members, and the same of every ancestor.
PartsOf(schema, document) ==
  LET ancestors == {MapGet(document.schemas, n) :
                      n \in AncestorClosure(document, ResolvableParents(schema, document))}
  IN  {schema} \cup InlineMembers(schema) \cup ancestors
        \cup UNION {InlineMembers(a) : a \in ancestors}

\* The document of the spec's example: Pet with the required field id, Dog
\* composed from Pet with its own required field name.
FieldUnionExample ==
  /\ MapGet(doc.schemas, nPet)
       = [type |-> "object", properties |-> <<Entry(pId, tyString)>>, required |-> <<pId>>]
  /\ MapGet(doc.schemas, nDog)
       = [allOf |-> <<Ref(nPet)>>, properties |-> <<Entry(pName, tyString)>>,
          required |-> <<pName>>]

\* C12: a flattening that returns yields as fields the union of the fields
\* of the schema, of its inline members and of every resolvable referenced
\* member, flattened in turn, and as required list the union of their
\* required lists without a repeated name; for Dog composed from Pet (id
\* required) with its own required name, both id and name are fields and
\* both are required.
C12_InheritanceFieldUnion ==
  \A e \in Merges :
    e.result.ok =>
      LET schema == MapGet(doc.schemas, e.schemaName)
      IN  /\ KeySet(e.result.properties) = UNION {FieldsOf(x) : x \in PartsOf(schema, doc)}
          /\ Range(e.result.required) = UNION {RequiredOf(x) : x \in PartsOf(schema, doc)}
          /\ NoDup(e.result.required)
          /\ (FieldUnionExample /\ e.schemaName = nDog) =>
               /\ KeySet(e.result.properties) = {pId, pName}
               /\ Range(e.result.required) = {pId, pName}

C12_Witness ==
  /\ FieldUnionExample
  /\ \E e \in Merges :
       /\ e.schemaName = nDog
       /\ e.result.ok
       /\ e.result.properties = <<Entry(pId, tyString), Entry(pName, tyString)>>
       /\ e.result.required = <<pId, pName>>

\* What a schema itself declares for a field: in its top-level properties or
\* in an inline member of its allOf list.
OwnDeclarations(schema, field) ==
  {MapGet(x.properties, field) :
     x \in {y \in {schema} \cup InlineMembers(schema) : field \in FieldsOf(y)}}

OwnFields(schema) == UNION {FieldsOf(x) : x \in {schema} \cup InlineMembers(schema)}

\* C18: in the flattened fields of a schema, a field the schema declares
\* itself, in its top-level properties or in an inline member of its allOf
\* list, has the schema's own declaration, whatever a referenced parent
\* declares under that name and wherever the reference stands in the list.
C18_OwnDeclarationWins ==
  \A e \in Merges :
    e.result.ok =>
      \A field \in OwnFields(MapGet(doc.schemas, e.schemaName)) :
        MapGet(e.result.properties, field)
          \in OwnDeclarations(MapGet(doc.schemas, e.schemaName), field)


-----------------------------------------------------------------------------
(* The names of the classes written                                        *)

\* C21: no two different class declarations of the text written have the
\* same class name, whatever their kind: the class of a declared schema, of
\* a response, of a nested object property or of array items, or an
\* auxiliary 'With' class.
C21_ClassNamesDistinct ==
  Done =>
    \A c1, c2 \in ClassesOf(output) : c1.name = c2.name => c1 = c2


====
